---- MODULE Spec2Model ----
(***************************************************************************)
(* Recording-session lifecycle and transcription-finalization pipeline of  *)
(* the Kotoba desktop application (apps/desktop-tauri/src-tauri).          *)
(*                                                                         *)
(* The Tauri commands signal_start, signal_stop, cancel_session,           *)
(* process_audio_chunk and update_settings run their whole body under the  *)
(* Mutex<AppState> guard, so each of them is one atomic action.            *)
(* finalize_session is an async command that takes the guard three times   *)
(* (settings snapshot, database insert, transition to Idle) and releases   *)
(* it in between, so each of its steps is an action of its own and the     *)
(* other commands interleave with them.                                    *)
(***************************************************************************)
EXTENDS Integers, Sequences, FiniteSets, TLC

\* ------------------------------------------------------------------ bounds

\* signal_start / signal_stop / cancel_session calls made in one run
MaxCalls == 4

\* Transcriptions a run saves through save_transcription
MaxSaves == 1

\* ------------------------------------------------------- Option and Result

None == <<>>

Some(x) == <<x>>

IsSome(o) == o /= None

Unwrap(o) == o[1]

Ok(v) == [ok |-> TRUE, val |-> v]

Err(e) == [ok |-> FALSE, val |-> e]

\* -------------------------------------------------------------- AppState

VARIABLES
    recording_state,    \* AppState.recording_state
    active_session_id,  \* AppState.active_session_id : Option<String>
    settings,           \* AppState.settings (the fields finalize_session reads)
    db_rows,            \* rows of the transcriptions table, in insertion order
    db_seq,             \* AUTOINCREMENT counter of the transcriptions table
    uuids,              \* number of identifiers Uuid::new_v4 has produced
    fin,                \* the finalize_session calls: locals and position
    events,             \* everything handed to app.emit, in order
    calls,              \* completed lifecycle calls and finalize commits, in order
    chunk_ret,          \* return value of the latest process_audio_chunk call
    state_ret,          \* return value of the latest get_recording_state call
    lock,               \* holder of the Mutex<AppState> guard, if any
    records_ret         \* return value of the latest save or delete command

vars == <<recording_state, active_session_id, settings, db_rows, db_seq,
          uuids, fin, events, calls, chunk_ret, state_ret, lock, records_ret>>

RecordingState == {"Idle", "Recording", "Processing"}

\* DictationSettings values a settings update may carry
DictationSettings ==
    {[auto_detect_enabled |-> a, selected_language |-> "en"] : a \in BOOLEAN}

\* FormatterConfig values a settings update may carry
FormatterConfig ==
    {[enabled |-> e, model_id |-> m] : e \in BOOLEAN, m \in {None, Some("llama3")}}

\* ModelProvidersConfig values a settings update may carry
ModelProvidersConfig ==
    {[ollama |-> o] : o \in {None, Some([url |-> "http://localhost:11434"])}}

AppSettingsData ==
    [dictation : {None} \cup {Some(d) : d \in DictationSettings},
     formatter_config : {None} \cup {Some(f) : f \in FormatterConfig},
     model_providers_config : {None} \cup {Some(c) : c \in ModelProvidersConfig}]

\* AppSettingsData::default(): every section absent
DefaultSettings ==
    [dictation |-> None, formatter_config |-> None, model_providers_config |-> None]

\* Formatting enabled with a model and an endpoint, explicit language
FormattingSettings ==
    [dictation |-> Some([auto_detect_enabled |-> FALSE, selected_language |-> "en"]),
     formatter_config |-> Some([enabled |-> TRUE, model_id |-> Some("llama3")]),
     model_providers_config |->
         Some([ollama |-> Some([url |-> "http://localhost:11434"])])]

\* The settings an update_settings call of this model may carry
SettingsInputs == {DefaultSettings, FormattingSettings}

\* The store as a pair, as RecordingStateUpdate carries it
Store == [state |-> recording_state, session_id |-> active_session_id]

RecordingStateUpdate(st, sid) == [state |-> st, session_id |-> sid]

StateChanged(update) == [name |-> "recording-state-changed", payload |-> update]

Completed(text) == [name |-> "transcription-completed", payload |-> text]

\* Mutant of NewV4: a generator that hands out the same identifier every time
NewV4Repeats(n) == 1

\* Uuid::new_v4(): the n-th identifier drawn is n; draws never repeat
NewV4(n) == n + 1

\* Session identifiers a caller can put into an options struct: those the
\* application has handed out, and 0 for a string it never handed out.
KnownIds == 0..uuids

\* ------------------------------------------------ finalize_session locals

NotCalled ==
    [pc |-> "ready", session_id |-> 0, audio_file_path |-> None,
     language |-> None, formatter_config |-> None, ollama_url |-> None,
     raw_text |-> "", final_text |-> "", ret |-> None,
     at_call |-> None, calls_before |-> 0, at_return |-> None,
     speech_calls |-> <<>>, format_calls |-> <<>>, created |-> <<>>,
     settings_at_call |-> None, speech_results |-> <<>>,
     format_results |-> <<>>, emitted |-> <<>>, create_results |-> <<>>]

\* The finalize_session calls of a run: one call is followed from its
\* invocation to its return, under every interleaving with the other commands
Pipelines == {1}

\* Pipeline p has been called and has not returned
InFlight(p) == fin[p].pc \notin {"ready", "returned"}

\* The signal_start, signal_stop and cancel_session calls made so far
LifecycleCalls == {i \in 1..Len(calls) : calls[i].op /= "finalize_session"}

\* A run makes MaxCalls lifecycle calls at most
CanCall == Cardinality(LifecycleCalls) < MaxCalls

Init ==
    /\ recording_state = "Idle"
    /\ active_session_id = None
    /\ settings = DefaultSettings
    /\ db_rows = <<>>
    /\ db_seq = 0
    /\ uuids = 0
    /\ fin = [p \in Pipelines |-> NotCalled]
    /\ events = <<>>
    /\ calls = <<>>
    /\ chunk_ret = None
    /\ state_ret = None
    /\ lock = None
    /\ records_ret = None

\* The error signal_start returns when a session is active
AlreadyActive == "Recording already in progress"

\* The error signal_stop returns when no session is active
NotActive == "No recording in progress"

\* What one action handed to app.emit
Emitted == SubSeq(events', Len(events) + 1, Len(events'))

\* A completed call: the store before and after it, what it returned and
\* what it emitted
Call(op, ret) ==
    [op |-> op, pre |-> Store, post |-> Store', ret |-> ret, emitted |-> Emitted]

\* state.lock() returns the guard at once when no caller holds it; every
\* guarded block below drops the guard at its closing brace, so the block
\* is one step that finds the guard free and leaves it free.
CanLock == lock = None

\* ------------------------------------------------------------ signal_start

\* Mutant of SignalStart: the check of the current state is missing
SignalStartUnchecked ==
    /\ CanCall
    /\ CanLock
    /\ LET session_id == NewV4(uuids)
       IN  /\ uuids' = uuids + 1
           /\ recording_state' = "Recording"
           /\ active_session_id' = Some(session_id)
           /\ LET update == RecordingStateUpdate(recording_state', Some(session_id))
              IN  /\ events' = Append(events, StateChanged(update))
                  /\ calls' = Append(calls, Call("signal_start", Ok(update)))
    /\ UNCHANGED <<settings, db_rows, db_seq, fin, chunk_ret, state_ret, lock, records_ret>>

\* Mutant of SignalStart: a rejected start still notifies the windows
SignalStartNotifiesRejection ==
    /\ CanCall
    /\ CanLock
    /\ IF recording_state /= "Idle"
       THEN /\ UNCHANGED <<recording_state, active_session_id, uuids>>
            /\ events' = Append(events, StateChanged(Store))
            /\ calls' = Append(calls, Call("signal_start", Err(AlreadyActive)))
       ELSE LET session_id == NewV4(uuids)
            IN  /\ uuids' = uuids + 1
                /\ recording_state' = "Recording"
                /\ active_session_id' = Some(session_id)
                /\ LET update == RecordingStateUpdate(recording_state',
                                                      Some(session_id))
                   IN  /\ events' = Append(events, StateChanged(update))
                       /\ calls' = Append(calls, Call("signal_start", Ok(update)))
    /\ UNCHANGED <<settings, db_rows, db_seq, fin, chunk_ret, state_ret, lock, records_ret>>

SignalStart ==
    /\ CanCall
    /\ CanLock
    /\ IF recording_state /= "Idle"
       THEN /\ UNCHANGED <<recording_state, active_session_id, uuids, events>>
            /\ calls' = Append(calls, Call("signal_start", Err(AlreadyActive)))
       ELSE LET session_id == NewV4(uuids)
            IN  /\ uuids' = uuids + 1
                /\ recording_state' = "Recording"
                /\ active_session_id' = Some(session_id)
                /\ LET update == RecordingStateUpdate(recording_state',
                                                      Some(session_id))
                   IN  /\ events' = Append(events, StateChanged(update))
                       /\ calls' = Append(calls, Call("signal_start", Ok(update)))
    /\ UNCHANGED <<settings, db_rows, db_seq, fin, chunk_ret, state_ret, lock, records_ret>>

\* ------------------------------------------------------------- signal_stop

\* Mutant of SignalStop: the check of the current state is missing
SignalStopUnchecked ==
    /\ CanCall
    /\ CanLock
    /\ recording_state' = "Processing"
    /\ UNCHANGED active_session_id
    /\ LET update == RecordingStateUpdate(recording_state', active_session_id')
       IN  /\ events' = Append(events, StateChanged(update))
           /\ calls' = Append(calls, Call("signal_stop", Ok(update)))
    /\ UNCHANGED <<settings, db_rows, db_seq, uuids, fin, chunk_ret, state_ret, lock, records_ret>>

\* Mutant of SignalStop: the update is built before the state is changed
SignalStopStaleUpdate ==
    /\ CanCall
    /\ CanLock
    /\ IF recording_state = "Idle"
       THEN /\ UNCHANGED <<recording_state, events>>
            /\ UNCHANGED active_session_id
            /\ calls' = Append(calls, Call("signal_stop", Err(NotActive)))
       ELSE /\ recording_state' = "Processing"
            /\ UNCHANGED active_session_id
            /\ LET update == RecordingStateUpdate(recording_state, active_session_id)
               IN  /\ events' = Append(events, StateChanged(update))
                   /\ calls' = Append(calls, Call("signal_stop", Ok(update)))
    /\ UNCHANGED <<settings, db_rows, db_seq, uuids, fin, chunk_ret, state_ret, lock, records_ret>>

SignalStop ==
    /\ CanCall
    /\ CanLock
    /\ IF recording_state = "Idle"
       THEN /\ UNCHANGED <<recording_state, events>>
            /\ UNCHANGED active_session_id
            /\ calls' = Append(calls, Call("signal_stop", Err(NotActive)))
       ELSE /\ recording_state' = "Processing"
            /\ UNCHANGED active_session_id
            /\ LET update == RecordingStateUpdate(recording_state',
                                                  active_session_id')
               IN  /\ events' = Append(events, StateChanged(update))
                   /\ calls' = Append(calls, Call("signal_stop", Ok(update)))
    /\ UNCHANGED <<settings, db_rows, db_seq, uuids, fin, chunk_ret, state_ret, lock, records_ret>>

\* ---------------------------------------------------------- cancel_session

\* Mutant of CancelSession: the session id is not cleared
CancelSessionKeepsId ==
    /\ CanCall
    /\ CanLock
    /\ recording_state' = "Idle"
    /\ UNCHANGED active_session_id
    /\ events' = Append(events, StateChanged(RecordingStateUpdate("Idle", None)))
    /\ calls' = Append(calls, Call("cancel_session", Ok("()")))
    /\ UNCHANGED <<settings, db_rows, db_seq, uuids, fin, chunk_ret, state_ret, lock, records_ret>>

\* Mutant of CancelSession: a cancel without a session is an error
CancelSessionRejectsIdle ==
    /\ CanCall
    /\ CanLock
    /\ IF recording_state = "Idle"
       THEN /\ UNCHANGED <<recording_state, active_session_id, events>>
            /\ calls' = Append(calls, Call("cancel_session", Err(NotActive)))
       ELSE /\ recording_state' = "Idle"
            /\ active_session_id' = None
            /\ events' = Append(events, StateChanged(RecordingStateUpdate("Idle", None)))
            /\ calls' = Append(calls, Call("cancel_session", Ok("()")))
    /\ UNCHANGED <<settings, db_rows, db_seq, uuids, fin, chunk_ret, state_ret, lock, records_ret>>

\* Mutant of CancelSession: the windows are not notified
CancelSessionSilent ==
    /\ CanCall
    /\ CanLock
    /\ recording_state' = "Idle"
    /\ active_session_id' = None
    /\ UNCHANGED events
    /\ calls' = Append(calls, Call("cancel_session", Ok("()")))
    /\ UNCHANGED <<settings, db_rows, db_seq, uuids, fin, chunk_ret, state_ret, lock, records_ret>>

CancelSession ==
    /\ CanCall
    /\ CanLock
    /\ recording_state' = "Idle"
    /\ active_session_id' = None
    /\ events' = Append(events, StateChanged(RecordingStateUpdate("Idle", None)))
    /\ calls' = Append(calls, Call("cancel_session", Ok("()")))
    /\ UNCHANGED <<settings, db_rows, db_seq, uuids, fin, chunk_ret, state_ret, lock, records_ret>>

\* ----------------------------------------------------- get_recording_state

GetRecordingState ==
    /\ CanLock
    /\ state_ret' = Some(Ok(RecordingStateUpdate(recording_state, active_session_id)))
    /\ UNCHANGED <<recording_state, active_session_id, settings, db_rows, db_seq,
                   uuids, fin, events, calls, chunk_ret, lock, records_ret>>

\* ----------------------------------------------------- process_audio_chunk

\* Mutant of ProcessAudioChunk: a chunk for a session that is not the active
\* one is refused
ProcessAudioChunkChecksSession(session_id) ==
    /\ chunk_ret' = IF active_session_id = Some(session_id)
                    THEN Some(Ok(""))
                    ELSE Some(Err("unknown session"))
    /\ UNCHANGED <<recording_state, active_session_id, settings, db_rows, db_seq,
                   uuids, fin, events, calls, state_ret, lock, records_ret>>

ProcessAudioChunk(session_id) ==
    /\ chunk_ret' = Some(Ok(""))
    /\ UNCHANGED <<recording_state, active_session_id, settings, db_rows, db_seq,
                   uuids, fin, events, calls, state_ret, lock, records_ret>>

\* --------------------------------------------------------- update_settings

UpdateSettings(new_settings) ==
    /\ CanLock
    /\ settings' = new_settings
    /\ UNCHANGED <<recording_state, active_session_id, db_rows, db_seq, uuids,
                   fin, events, calls, chunk_ret, state_ret, lock, records_ret>>

\* -------------------------------------------------------- finalize_session

\* Mutant of ResolveLanguage: auto-detect is not consulted
ResolveLanguageIgnoresAutoDetect(s) ==
    IF IsSome(s.dictation)
    THEN Some(Unwrap(s.dictation).selected_language)
    ELSE None

\* language: unset without dictation settings or with auto-detect enabled
ResolveLanguage(s) ==
    IF IsSome(s.dictation)
    THEN IF Unwrap(s.dictation).auto_detect_enabled
         THEN None
         ELSE Some(Unwrap(s.dictation).selected_language)
    ELSE None

\* ollama_url: model_providers_config, then its ollama section, then the url
ResolveOllamaUrl(s) ==
    IF IsSome(s.model_providers_config)
    THEN IF IsSome(Unwrap(s.model_providers_config).ollama)
         THEN Some(Unwrap(Unwrap(s.model_providers_config).ollama).url)
         ELSE None
    ELSE None

\* Mutant of FinalizeSnapshot: the guard of the snapshot block lives on to
\* the end of the function instead of the end of the block
FinalizeSnapshotKeepsGuard(p, session_id, audio) ==
    /\ fin[p].pc = "ready"
    /\ CanLock
    /\ lock' = Some(p)
    /\ \A q \in 1..(p - 1) : fin[q].pc /= "ready"
    /\ fin' = [fin EXCEPT ![p] =
                 [@ EXCEPT !.pc = "transcribe",
                           !.session_id = session_id,
                           !.audio_file_path = audio,
                           !.language = ResolveLanguage(settings),
                           !.formatter_config = settings.formatter_config,
                           !.ollama_url = ResolveOllamaUrl(settings),
                           !.at_call = Some(Store),
                           !.settings_at_call = Some(settings),
                           !.calls_before = Len(calls)]]
    /\ UNCHANGED <<recording_state, active_session_id, settings, db_rows, db_seq,
                   uuids, events, calls, chunk_ret, state_ret, records_ret>>

\* First guarded block: the settings snapshot.  session_id and audio are the
\* caller's FinalizeSessionOptions; the command checks neither against the store.
FinalizeSnapshot(p, session_id, audio) ==
    /\ fin[p].pc = "ready"
    /\ CanLock
    /\ \A q \in 1..(p - 1) : fin[q].pc /= "ready"
    /\ fin' = [fin EXCEPT ![p] =
                 [@ EXCEPT !.pc = "transcribe",
                           !.session_id = session_id,
                           !.audio_file_path = audio,
                           !.language = ResolveLanguage(settings),
                           !.formatter_config = settings.formatter_config,
                           !.ollama_url = ResolveOllamaUrl(settings),
                           !.at_call = Some(Store),
                           !.settings_at_call = Some(settings),
                           !.calls_before = Len(calls)]]
    /\ UNCHANGED <<recording_state, active_session_id, settings, db_rows, db_seq,
                   uuids, events, calls, chunk_ret, state_ret, lock, records_ret>>

\* What the speech engine may answer: Result<String, String>.  The engine
\* shipped in the repository is a placeholder that answers Ok(""); a wired-in
\* engine answers with text or with an error.
SpeechResults == {Ok(""), Ok("hello world"), Err("inference failed")}

\* Mutant of FinalizeTranscribe: unwrap_or_default() in place of ?, a failed
\* transcription carries on as an empty one
FinalizeTranscribeSwallows(p, r) ==
    /\ fin[p].pc = "transcribe"
    /\ IF IsSome(fin[p].audio_file_path)
       THEN fin' = [fin EXCEPT ![p] =
                      [@ EXCEPT !.pc = "format",
                                !.raw_text = IF r.ok THEN r.val ELSE "",
                                !.speech_calls =
                                    Append(@, <<fin[p].audio_file_path, fin[p].language>>),
                                !.speech_results = Append(@, r)]]
       ELSE fin' = [fin EXCEPT ![p] = [@ EXCEPT !.pc = "format", !.raw_text = ""]]
    /\ UNCHANGED <<recording_state, active_session_id, settings, db_rows, db_seq,
                   uuids, events, calls, chunk_ret, state_ret, lock, records_ret>>

\* Mutant of FinalizeTranscribe: the speech engine is asked whether or not
\* an audio path was given
FinalizeTranscribeAlways(p, r) ==
    /\ fin[p].pc = "transcribe"
    /\ LET asked == Append(fin[p].speech_calls,
                           <<fin[p].audio_file_path, fin[p].language>>)
       IN  IF r.ok
           THEN fin' = [fin EXCEPT ![p] =
                          [@ EXCEPT !.pc = "format",
                                    !.raw_text = r.val,
                                    !.speech_calls = asked,
                                    !.speech_results = Append(@, r)]]
           ELSE fin' = [fin EXCEPT ![p] =
                          [@ EXCEPT !.pc = "returned",
                                    !.ret = Some(Err(r.val)),
                                    !.speech_calls = asked,
                                    !.speech_results = Append(@, r),
                                    !.at_return = Some(Store)]]
    /\ UNCHANGED <<recording_state, active_session_id, settings, db_rows, db_seq,
                   uuids, events, calls, chunk_ret, state_ret, lock, records_ret>>

\* raw_text: the speech engine is asked only when an audio path is present;
\* the ? operator returns its error from finalize_session at once.
FinalizeTranscribe(p, r) ==
    /\ fin[p].pc = "transcribe"
    /\ IF IsSome(fin[p].audio_file_path)
       THEN   LET asked == Append(fin[p].speech_calls,
                                  <<fin[p].audio_file_path, fin[p].language>>)
              IN  IF r.ok
                  THEN fin' = [fin EXCEPT ![p] =
                                 [@ EXCEPT !.pc = "format",
                                           !.raw_text = r.val,
                                           !.speech_calls = asked,
                                           !.speech_results = Append(@, r)]]
                  ELSE fin' = [fin EXCEPT ![p] =
                                 [@ EXCEPT !.pc = "returned",
                                           !.ret = Some(Err(r.val)),
                                           !.speech_calls = asked,
                                           !.speech_results = Append(@, r),
                                           !.at_return = Some(Store)]]
       ELSE fin' = [fin EXCEPT ![p] = [@ EXCEPT !.pc = "format", !.raw_text = ""]]
    /\ UNCHANGED <<recording_state, active_session_id, settings, db_rows, db_seq,
                   uuids, events, calls, chunk_ret, state_ret, lock, records_ret>>

\* What the Ollama endpoint may do with the request
OllamaReplies == {"unreachable", "no response field", "formatted"}

\* format_with_ollama: a transport or JSON error is Err; a reply without a
\* "response" string yields the input text; otherwise the reply's text.
FormatWithOllama(reply, text) ==
    CASE reply = "unreachable"       -> Err("error sending request")
      [] reply = "no response field" -> Ok(text)
      [] OTHER                       -> Ok("Hello, world.")

\* Mutant of WantsFormatting: the enabled flag is not consulted
WantsFormattingIgnoresEnabled(raw_text, formatter_config, ollama_url) ==
    /\ raw_text /= ""
    /\ IsSome(formatter_config)
    /\ IsSome(ollama_url)
    /\ IsSome(Unwrap(formatter_config).model_id)

\* The nested conditions under which format_with_ollama is called
WantsFormatting(raw_text, formatter_config, ollama_url) ==
    /\ raw_text /= ""
    /\ IsSome(formatter_config)
    /\ Unwrap(formatter_config).enabled
    /\ IsSome(ollama_url)
    /\ IsSome(Unwrap(formatter_config).model_id)

\* Mutant of UnwrapOr: Result::unwrap_or_default, the empty string on Err
UnwrapOrDefault(r, default) == IF r.ok THEN r.val ELSE ""

\* Mutant of UnwrapOr: the formatter's answer is dropped
UnwrapOrIgnored(r, default) == default

\* Result::unwrap_or
UnwrapOr(r, default) == IF r.ok THEN r.val ELSE default

\* Mutant of FinalizeFormat: the formatter config and the endpoint are read
\* from the live settings a second time instead of from the snapshot
FinalizeFormatRereads(p, reply) ==
    /\ fin[p].pc = "format"
    /\ IF WantsFormatting(fin[p].raw_text, settings.formatter_config,
                          ResolveOllamaUrl(settings))
       THEN   fin' = [fin EXCEPT ![p] =
                        [@ EXCEPT !.pc = "persist",
                                  !.final_text =
                                      UnwrapOr(FormatWithOllama(reply, fin[p].raw_text),
                                               fin[p].raw_text),
                                  !.format_calls =
                                      Append(@, <<Unwrap(ResolveOllamaUrl(settings)),
                                                  Unwrap(Unwrap(settings.formatter_config).model_id),
                                                  fin[p].raw_text>>),
                                  !.format_results =
                                      Append(@, FormatWithOllama(reply, fin[p].raw_text))]]
       ELSE fin' = [fin EXCEPT ![p] =
                      [@ EXCEPT !.pc = "persist", !.final_text = fin[p].raw_text]]
    /\ UNCHANGED <<recording_state, active_session_id, settings, db_rows, db_seq,
                   uuids, events, calls, chunk_ret, state_ret, lock, records_ret>>

\* Mutant of FinalizeFormat: a failed formatter call is made a second time
FinalizeFormatRetries(p, reply) ==
    /\ fin[p].pc = "format"
    /\ IF WantsFormatting(fin[p].raw_text, fin[p].formatter_config, fin[p].ollama_url)
       THEN LET request == <<Unwrap(fin[p].ollama_url),
                             Unwrap(Unwrap(fin[p].formatter_config).model_id),
                             fin[p].raw_text>>
                answer == FormatWithOllama(reply, fin[p].raw_text)
            IN  fin' = [fin EXCEPT ![p] =
                          [@ EXCEPT !.pc = "persist",
                                    !.final_text = UnwrapOr(answer, fin[p].raw_text),
                                    !.format_calls =
                                        IF answer.ok
                                        THEN Append(@, request)
                                        ELSE Append(Append(@, request), request),
                                    !.format_results =
                                        IF answer.ok
                                        THEN Append(@, answer)
                                        ELSE Append(Append(@, answer), answer)]]
       ELSE fin' = [fin EXCEPT ![p] =
                      [@ EXCEPT !.pc = "persist", !.final_text = fin[p].raw_text]]
    /\ UNCHANGED <<recording_state, active_session_id, settings, db_rows, db_seq,
                   uuids, events, calls, chunk_ret, state_ret, lock, records_ret>>

FinalizeFormat(p, reply) ==
    /\ fin[p].pc = "format"
    /\ IF WantsFormatting(fin[p].raw_text, fin[p].formatter_config, fin[p].ollama_url)
       THEN   fin' = [fin EXCEPT ![p] =
                        [@ EXCEPT !.pc = "persist",
                                  !.final_text =
                                      UnwrapOr(FormatWithOllama(reply, fin[p].raw_text),
                                               fin[p].raw_text),
                                  !.format_calls =
                                      Append(@, <<Unwrap(fin[p].ollama_url),
                                                  Unwrap(Unwrap(fin[p].formatter_config).model_id),
                                                  fin[p].raw_text>>),
                                  !.format_results =
                                      Append(@, FormatWithOllama(reply, fin[p].raw_text))]]
       ELSE fin' = [fin EXCEPT ![p] =
                      [@ EXCEPT !.pc = "persist", !.final_text = fin[p].raw_text]]
    /\ UNCHANGED <<recording_state, active_session_id, settings, db_rows, db_seq,
                   uuids, events, calls, chunk_ret, state_ret, lock, records_ret>>

\* Option::or
OrElse(o, fallback) == IF IsSome(o) THEN o ELSE fallback

\* Database::create_transcription: the row an INSERT adds under rowid id
Transcription(id, text, language, audio_file, duration, speech_model, formatting_model, meta) ==
    [id |-> id, text |-> text, language |-> language, audio_file |-> audio_file,
     duration |-> duration, speech_model |-> speech_model,
     formatting_model |-> formatting_model, meta |-> meta]

\* Mutant of FinalizePersist: the guard of the insert block is still alive
\* when the block ends
FinalizePersistKeepsGuard(p, inserted) ==
    /\ fin[p].pc = "persist"
    /\ CanLock
    /\ lock' = Some(p)
    /\   IF inserted
         THEN LET meta == [sessionId |-> fin[p].session_id, source |-> "microphone"]
                  row == Transcription(db_seq + 1, fin[p].final_text,
                                       OrElse(fin[p].language, Some("ja")),
                                       fin[p].audio_file_path, None,
                                       Some("whisper-local"), None, Some(meta))
              IN  /\ db_rows' = Append(db_rows, row)
                  /\ db_seq' = db_seq + 1
                  /\ fin' = [fin EXCEPT ![p] =
                               [@ EXCEPT !.pc = "transition",
                                         !.created = Append(@, db_seq + 1),
                                         !.create_results = Append(@, Ok(db_seq + 1))]]
         ELSE /\ fin' = [fin EXCEPT ![p] =
                          [@ EXCEPT !.pc = "returned",
                                    !.ret = Some(Err("storage failure")),
                                    !.create_results = Append(@, Err("storage failure")),
                                    !.at_return = Some(Store)]]
              /\ UNCHANGED <<db_rows, db_seq>>
    /\ UNCHANGED <<recording_state, active_session_id, settings, uuids, events,
                   calls, chunk_ret, state_ret, records_ret>>

\* Mutant of FinalizePersist: the result of the insert is dropped (let _ =)
\* and the call carries on to the transition
FinalizePersistSwallowsError(p, inserted) ==
    /\ fin[p].pc = "persist"
    /\ CanLock
    /\   IF inserted
         THEN LET meta == [sessionId |-> fin[p].session_id, source |-> "microphone"]
                  row == Transcription(db_seq + 1, fin[p].final_text,
                                       OrElse(fin[p].language, Some("ja")),
                                       fin[p].audio_file_path, None,
                                       Some("whisper-local"), None, Some(meta))
              IN  /\ db_rows' = Append(db_rows, row)
                  /\ db_seq' = db_seq + 1
                  /\ fin' = [fin EXCEPT ![p] =
                               [@ EXCEPT !.pc = "transition",
                                         !.created = Append(@, db_seq + 1),
                                         !.create_results = Append(@, Ok(db_seq + 1))]]
         ELSE /\ fin' = [fin EXCEPT ![p] =
                          [@ EXCEPT !.pc = "transition",
                                    !.create_results = Append(@, Err("storage failure"))]]
              /\ UNCHANGED <<db_rows, db_seq>>
    /\ UNCHANGED <<recording_state, active_session_id, settings, uuids, events,
                   calls, chunk_ret, state_ret, lock, records_ret>>

\* Second guarded block: the insert.  A failed insert returns from
\* finalize_session through the ? operator.
FinalizePersist(p, inserted) ==
    /\ fin[p].pc = "persist"
    /\ CanLock
    /\   IF inserted
         THEN LET meta == [sessionId |-> fin[p].session_id, source |-> "microphone"]
                  row == Transcription(db_seq + 1, fin[p].final_text,
                                       OrElse(fin[p].language, Some("ja")),
                                       fin[p].audio_file_path, None,
                                       Some("whisper-local"), None, Some(meta))
              IN  /\ db_rows' = Append(db_rows, row)
                  /\ db_seq' = db_seq + 1
                  /\ fin' = [fin EXCEPT ![p] =
                               [@ EXCEPT !.pc = "transition",
                                         !.created = Append(@, db_seq + 1),
                                         !.create_results = Append(@, Ok(db_seq + 1))]]
         ELSE /\ fin' = [fin EXCEPT ![p] =
                          [@ EXCEPT !.pc = "returned",
                                    !.ret = Some(Err("storage failure")),
                                    !.create_results = Append(@, Err("storage failure")),
                                    !.at_return = Some(Store)]]
              /\ UNCHANGED <<db_rows, db_seq>>
    /\ UNCHANGED <<recording_state, active_session_id, settings, uuids, events,
                   calls, chunk_ret, state_ret, lock, records_ret>>

\* Third guarded block: the transition back to Idle, whatever the store holds
FinalizeTransition(p) ==
    /\ fin[p].pc = "transition"
    /\ CanLock
    /\ recording_state' = "Idle"
    /\ active_session_id' = None
    /\ UNCHANGED events
    /\ calls' = Append(calls, Call("finalize_session",
                                   [pipeline |-> p, session_id |-> fin[p].session_id]))
    /\ fin' = [fin EXCEPT ![p] = [@ EXCEPT !.pc = "emit_state"]]
    /\ UNCHANGED <<settings, db_rows, db_seq, uuids, chunk_ret, state_ret, lock, records_ret>>

\* Mutant of FinalizeEmitState: the update is built from the store as it is
\* when the event is emitted
FinalizeEmitStateLive(p) ==
    /\ fin[p].pc = "emit_state"
    /\ events' = Append(events, StateChanged(Store))
    /\ fin' = [fin EXCEPT ![p] =
                 [@ EXCEPT !.pc = "emit_completed",
                           !.emitted = Append(@, events'[Len(events')])]]
    /\ UNCHANGED <<recording_state, active_session_id, settings, db_rows, db_seq,
                   uuids, calls, chunk_ret, state_ret, lock, records_ret>>

\* Mutant of FinalizeEmitState: the two emits are swapped, the completion
\* event goes out where the state change should
FinalizeEmitStateCompletesFirst(p) ==
    /\ fin[p].pc = "emit_state"
    /\ events' = Append(events, Completed(fin[p].final_text))
    /\ fin' = [fin EXCEPT ![p] =
                 [@ EXCEPT !.pc = "emit_completed",
                           !.emitted = Append(@, events'[Len(events')])]]
    /\ UNCHANGED <<recording_state, active_session_id, settings, db_rows, db_seq,
                   uuids, calls, chunk_ret, state_ret, lock, records_ret>>

\* Mutant of FinalizeEmitState: the windows are not told of the transition
FinalizeEmitStateSkipped(p) ==
    /\ fin[p].pc = "emit_state"
    /\ UNCHANGED events
    /\ fin' = [fin EXCEPT ![p] = [@ EXCEPT !.pc = "emit_completed"]]
    /\ UNCHANGED <<recording_state, active_session_id, settings, db_rows, db_seq,
                   uuids, calls, chunk_ret, state_ret, lock, records_ret>>

\* app.emit("recording-state-changed", ..), outside the guard
FinalizeEmitState(p) ==
    /\ fin[p].pc = "emit_state"
    /\ events' = Append(events, StateChanged(RecordingStateUpdate("Idle", None)))
    /\ fin' = [fin EXCEPT ![p] =
                 [@ EXCEPT !.pc = "emit_completed",
                           !.emitted = Append(@, events'[Len(events')])]]
    /\ UNCHANGED <<recording_state, active_session_id, settings, db_rows, db_seq,
                   uuids, calls, chunk_ret, state_ret, lock, records_ret>>

\* app.emit("transcription-completed", ..) and Ok(final_text)
FinalizeEmitCompleted(p) ==
    /\ fin[p].pc = "emit_completed"
    /\ events' = Append(events, Completed(fin[p].final_text))
    /\ fin' = [fin EXCEPT ![p] =
                 [@ EXCEPT !.pc = "returned",
                           !.ret = Some(Ok(fin[p].final_text)),
                           !.emitted = Append(@, events'[Len(events')]),
                           !.at_return = Some(Store)]]
    /\ UNCHANGED <<recording_state, active_session_id, settings, db_rows, db_seq,
                   uuids, calls, chunk_ret, state_ret, lock, records_ret>>

\* ------------------------------------- save and delete of transcriptions

\* A run saves MaxSaves transcriptions at most through save_transcription
CanSave == db_seq < MaxSaves

\* What a command on the transcriptions table answered
Answer(op, ret) == [op |-> op, ret |-> ret]

\* The CreateTranscriptionInput of a record entered by hand
ManualInput ==
    [text |-> "note", language |-> Some("en"), audio_file |-> None,
     duration |-> None, speech_model |-> None, formatting_model |-> None,
     meta |-> None]

\* save_transcription: one INSERT under the guard, the new rowid returned
SaveTranscription(input, inserted) ==
    /\ CanSave
    /\ CanLock
    /\ IF inserted
       THEN LET row == Transcription(db_seq + 1, input.text, input.language,
                                     input.audio_file, input.duration,
                                     input.speech_model, input.formatting_model,
                                     input.meta)
            IN  /\ db_rows' = Append(db_rows, row)
                /\ db_seq' = db_seq + 1
                /\ records_ret' = Some(Answer("save_transcription", Ok(db_seq + 1)))
       ELSE /\ UNCHANGED <<db_rows, db_seq>>
            /\ records_ret' = Some(Answer("save_transcription", Err("storage failure")))
    /\ UNCHANGED <<recording_state, active_session_id, settings, uuids, fin, events,
                   calls, chunk_ret, state_ret, lock>>

\* Mutant of DeleteTranscription: a soft delete, UPDATE .. SET text = ''
\* WHERE id = ?1, the record stays with its text blanked
DeleteTranscriptionBlanks(id, deleted) ==
    /\ CanLock
    /\ IF deleted
       THEN /\ db_rows' = [i \in DOMAIN db_rows |->
                              IF db_rows[i].id = id
                              THEN [db_rows[i] EXCEPT !.text = ""]
                              ELSE db_rows[i]]
            /\ records_ret' = Some(Answer("delete_transcription", Ok("()")))
       ELSE /\ UNCHANGED db_rows
            /\ records_ret' = Some(Answer("delete_transcription", Err("storage failure")))
    /\ UNCHANGED <<recording_state, active_session_id, settings, db_seq, uuids, fin,
                   events, calls, chunk_ret, state_ret, lock>>

\* delete_transcription: DELETE .. WHERE id = ?1, Ok whether or not a row
\* had that id
DeleteTranscription(id, deleted) ==
    /\ CanLock
    /\ IF deleted
       THEN /\ db_rows' = SelectSeq(db_rows, LAMBDA r : r.id /= id)
            /\ records_ret' = Some(Answer("delete_transcription", Ok("()")))
       ELSE /\ UNCHANGED db_rows
            /\ records_ret' = Some(Answer("delete_transcription", Err("storage failure")))
    /\ UNCHANGED <<recording_state, active_session_id, settings, db_seq, uuids, fin,
                   events, calls, chunk_ret, state_ret, lock>>

\* delete_all_transcriptions: DELETE without a condition; the AUTOINCREMENT
\* counter is kept
DeleteAllTranscriptions(deleted) ==
    /\ CanLock
    /\ IF deleted
       THEN /\ db_rows' = <<>>
            /\ records_ret' = Some(Answer("delete_all_transcriptions", Ok("()")))
       ELSE /\ UNCHANGED db_rows
            /\ records_ret' = Some(Answer("delete_all_transcriptions", Err("storage failure")))
    /\ UNCHANGED <<recording_state, active_session_id, settings, db_seq, uuids, fin,
                   events, calls, chunk_ret, state_ret, lock>>

\* --------------------------------------------------------- poisoned lock

\* std::sync::Mutex: a holder of the guard panicked; the mutex stays
\* poisoned and every later lock() returns Err(PoisonError).  Holder 0 is
\* no finalize_session call.
Poisoned == Some(0)

\* PoisonError as map_err(|e| e.to_string()) renders it
PoisonedLock == "poisoned lock: another task failed inside"

\* Some command panics while it holds the guard
Poison ==
    /\ CanLock
    /\ lock' = Poisoned
    /\ UNCHANGED <<recording_state, active_session_id, settings, db_rows, db_seq,
                   uuids, fin, events, calls, chunk_ret, state_ret, records_ret>>

\* A lifecycle command whose lock() fails: the ? returns the error before
\* the store is read
LockFails(op) ==
    /\ CanCall
    /\ lock = Poisoned
    /\ UNCHANGED <<recording_state, active_session_id, events>>
    /\ calls' = Append(calls, Call(op, Err(PoisonedLock)))
    /\ UNCHANGED <<settings, db_rows, db_seq, uuids, fin, chunk_ret, state_ret, lock,
                   records_ret>>

SignalStartPoisoned == LockFails("signal_start")

\* Mutant of SignalStopPoisoned: the guard is taken out of the PoisonError
\* (unwrap_or_else(|e| e.into_inner())) and the command carries on
SignalStopRecovers ==
    /\ CanCall
    /\ lock = Poisoned
    /\ IF recording_state = "Idle"
       THEN /\ UNCHANGED <<recording_state, active_session_id, events>>
            /\ calls' = Append(calls, Call("signal_stop", Err(NotActive)))
       ELSE /\ recording_state' = "Processing"
            /\ UNCHANGED active_session_id
            /\ LET update == RecordingStateUpdate("Processing", active_session_id)
               IN  /\ events' = Append(events, StateChanged(update))
                   /\ calls' = Append(calls, Call("signal_stop", Ok(update)))
    /\ UNCHANGED <<settings, db_rows, db_seq, uuids, fin, chunk_ret, state_ret, lock,
                   records_ret>>

SignalStopPoisoned == LockFails("signal_stop")

CancelSessionPoisoned == LockFails("cancel_session")

GetRecordingStatePoisoned ==
    /\ lock = Poisoned
    /\ state_ret' = Some(Err(PoisonedLock))
    /\ UNCHANGED <<recording_state, active_session_id, settings, db_rows, db_seq,
                   uuids, fin, events, calls, chunk_ret, lock, records_ret>>

\* finalize_session returns through the ? of a guarded block
FinalizeLockFails(p, at, session_id, audio) ==
    /\ fin[p].pc = at
    /\ lock = Poisoned
    /\ fin' = [fin EXCEPT ![p] =
                 [@ EXCEPT !.pc = "returned",
                           !.session_id = session_id,
                           !.audio_file_path = audio,
                           !.ret = Some(Err(PoisonedLock)),
                           !.at_return = Some(Store)]]
    /\ UNCHANGED <<recording_state, active_session_id, settings, db_rows, db_seq,
                   uuids, events, calls, chunk_ret, state_ret, lock, records_ret>>

\* The lock() of the snapshot block fails: nothing is read
FinalizeSnapshotPoisoned(p, session_id, audio) ==
    FinalizeLockFails(p, "ready", session_id, audio)

\* The lock() of the insert block fails: nothing is inserted
FinalizePersistPoisoned(p) ==
    FinalizeLockFails(p, "persist", fin[p].session_id, fin[p].audio_file_path)

\* The lock() of the transition block fails: the record is in the table,
\* the store keeps its state and no event follows
FinalizeTransitionPoisoned(p) ==
    FinalizeLockFails(p, "transition", fin[p].session_id, fin[p].audio_file_path)

\* ------------------------------------------------------------ specification

AudioPaths == {None, Some("a.wav")}

Next ==
    \/ SignalStart
    \/ SignalStop
    \/ CancelSession
    \/ \E session_id \in KnownIds : ProcessAudioChunk(session_id)
    \/ \E new_settings \in SettingsInputs : UpdateSettings(new_settings)
    \/ \E p \in Pipelines, session_id \in KnownIds, audio \in AudioPaths :
          FinalizeSnapshot(p, session_id, audio)
    \/ \E p \in Pipelines, r \in SpeechResults : FinalizeTranscribe(p, r)
    \/ \E p \in Pipelines, reply \in OllamaReplies : FinalizeFormat(p, reply)
    \/ \E p \in Pipelines, inserted \in BOOLEAN : FinalizePersist(p, inserted)
    \/ \E p \in Pipelines : FinalizeTransition(p)
    \/ \E p \in Pipelines : FinalizeEmitState(p)
    \/ \E p \in Pipelines : FinalizeEmitCompleted(p)

Spec == Init /\ [][Next]_vars

\* The application started on a database in which any settings were saved:
\* AppState::new loads them before the first command runs.
InitLoaded ==
    /\ recording_state = "Idle"
    /\ active_session_id = None
    /\ settings \in AppSettingsData
    /\ db_rows = <<>>
    /\ db_seq = 0
    /\ uuids = 0
    /\ fin = [p \in Pipelines |-> NotCalled]
    /\ events = <<>>
    /\ calls = <<>>
    /\ chunk_ret = None
    /\ state_ret = None
    /\ lock = None
    /\ records_ret = None

\* One session recorded, stopped and finalized under the settings loaded
NextLoaded ==
    \/ SignalStart
    \/ SignalStop
    \/ \E p \in Pipelines, session_id \in KnownIds, audio \in AudioPaths :
          FinalizeSnapshot(p, session_id, audio)
    \/ \E p \in Pipelines, r \in SpeechResults : FinalizeTranscribe(p, r)
    \/ \E p \in Pipelines, reply \in OllamaReplies : FinalizeFormat(p, reply)
    \/ \E p \in Pipelines, inserted \in BOOLEAN : FinalizePersist(p, inserted)
    \/ \E p \in Pipelines : FinalizeTransition(p)
    \/ \E p \in Pipelines : FinalizeEmitState(p)
    \/ \E p \in Pipelines : FinalizeEmitCompleted(p)

SpecLoaded == InitLoaded /\ [][NextLoaded]_vars

\* The application started on a database holding either no settings or
\* settings that enable formatting
InitConfigured ==
    /\ recording_state = "Idle"
    /\ active_session_id = None
    /\ settings \in SettingsInputs
    /\ db_rows = <<>>
    /\ db_seq = 0
    /\ uuids = 0
    /\ fin = [p \in Pipelines |-> NotCalled]
    /\ events = <<>>
    /\ calls = <<>>
    /\ chunk_ret = None
    /\ state_ret = None
    /\ lock = None
    /\ records_ret = None

\* The lifecycle commands and the state query running beside one
\* finalize_session call
NextQuery ==
    \/ SignalStart
    \/ SignalStop
    \/ CancelSession
    \/ GetRecordingState
    \/ \E p \in Pipelines, session_id \in KnownIds, audio \in AudioPaths :
          FinalizeSnapshot(p, session_id, audio)
    \/ \E p \in Pipelines, r \in SpeechResults : FinalizeTranscribe(p, r)
    \/ \E p \in Pipelines, reply \in OllamaReplies : FinalizeFormat(p, reply)
    \/ \E p \in Pipelines, inserted \in BOOLEAN : FinalizePersist(p, inserted)
    \/ \E p \in Pipelines : FinalizeTransition(p)
    \/ \E p \in Pipelines : FinalizeEmitState(p)
    \/ \E p \in Pipelines : FinalizeEmitCompleted(p)

SpecQuery == InitConfigured /\ [][NextQuery]_vars

\* Two finalize_session calls of one run, as when the renderer finalizes a
\* session twice
PipelinePair == {1, 2}

\* The application after signal_start and signal_stop: one session, in
\* Processing, both calls and their events on record
InitPair ==
    LET recording == RecordingStateUpdate("Recording", Some(NewV4(0)))
        processing == RecordingStateUpdate("Processing", Some(NewV4(0)))
    IN  /\ recording_state = "Processing"
        /\ active_session_id = Some(NewV4(0))
        /\ settings = DefaultSettings
        /\ db_rows = <<>>
        /\ db_seq = 0
        /\ uuids = 1
        /\ fin = [p \in PipelinePair |-> NotCalled]
        /\ events = <<StateChanged(recording), StateChanged(processing)>>
        /\ calls = <<[op |-> "signal_start", pre |-> RecordingStateUpdate("Idle", None),
                      post |-> recording, ret |-> Ok(recording),
                      emitted |-> <<StateChanged(recording)>>],
                     [op |-> "signal_stop", pre |-> recording, post |-> processing,
                      ret |-> Ok(processing),
                      emitted |-> <<StateChanged(processing)>>]>>
        /\ chunk_ret = None
        /\ state_ret = None
        /\ lock = None
        /\ records_ret = None

\* Two finalize_session calls for the session, with or without audio
NextPair ==
    \/ \E p \in PipelinePair, session_id \in KnownIds, audio \in AudioPaths :
          FinalizeSnapshot(p, session_id, audio)
    \/ \E p \in PipelinePair, r \in SpeechResults : FinalizeTranscribe(p, r)
    \/ \E p \in PipelinePair, reply \in OllamaReplies : FinalizeFormat(p, reply)
    \/ \E p \in PipelinePair, inserted \in BOOLEAN : FinalizePersist(p, inserted)
    \/ \E p \in PipelinePair : FinalizeTransition(p)
    \/ \E p \in PipelinePair : FinalizeEmitState(p)
    \/ \E p \in PipelinePair : FinalizeEmitCompleted(p)

SpecPair == InitPair /\ [][NextPair]_vars

\* Row ids a delete_transcription call may name: those handed out so far
\* and one never handed out
RowIds == 1..(db_seq + 1)

\* The application after signal_start, signal_stop and the first half of a
\* finalize_session call made for the session without an audio path under
\* the default settings: snapshot taken, nothing to transcribe or format,
\* the insert next
InitRecords ==
    LET recording == RecordingStateUpdate("Recording", Some(NewV4(0)))
        processing == RecordingStateUpdate("Processing", Some(NewV4(0)))
    IN  /\ recording_state = "Processing"
        /\ active_session_id = Some(NewV4(0))
        /\ settings = DefaultSettings
        /\ db_rows = <<>>
        /\ db_seq = 0
        /\ uuids = 1
        /\ fin = [p \in Pipelines |->
                    [NotCalled EXCEPT !.pc = "persist",
                                      !.session_id = NewV4(0),
                                      !.at_call = Some(processing),
                                      !.settings_at_call = Some(DefaultSettings),
                                      !.calls_before = 2]]
        /\ events = <<StateChanged(recording), StateChanged(processing)>>
        /\ calls = <<[op |-> "signal_start", pre |-> RecordingStateUpdate("Idle", None),
                      post |-> recording, ret |-> Ok(recording),
                      emitted |-> <<StateChanged(recording)>>],
                     [op |-> "signal_stop", pre |-> recording, post |-> processing,
                      ret |-> Ok(processing),
                      emitted |-> <<StateChanged(processing)>>]>>
        /\ chunk_ret = None
        /\ state_ret = None
        /\ lock = None
        /\ records_ret = None

\* Every command that takes the store's lock or answers beside it, the
\* second half of the finalize_session call and the transcriptions saved
\* and deleted by hand
NextRecords ==
    \/ SignalStart
    \/ SignalStop
    \/ CancelSession
    \/ GetRecordingState
    \/ \E session_id \in KnownIds : ProcessAudioChunk(session_id)
    \/ \E new_settings \in SettingsInputs : UpdateSettings(new_settings)
    \/ \E inserted \in BOOLEAN : SaveTranscription(ManualInput, inserted)
    \/ \E id \in RowIds, deleted \in BOOLEAN : DeleteTranscription(id, deleted)
    \/ \E deleted \in BOOLEAN : DeleteAllTranscriptions(deleted)
    \/ \E p \in Pipelines, inserted \in BOOLEAN : FinalizePersist(p, inserted)
    \/ \E p \in Pipelines : FinalizeTransition(p)
    \/ \E p \in Pipelines : FinalizeEmitState(p)
    \/ \E p \in Pipelines : FinalizeEmitCompleted(p)

SpecRecords == InitRecords /\ [][NextRecords]_vars

\* The lifecycle commands, get_recording_state and finalize_session on a
\* mutex that a panic may poison at any moment
NextPoisoned ==
    \/ SignalStart
    \/ SignalStop
    \/ CancelSession
    \/ GetRecordingState
    \/ \E p \in Pipelines, session_id \in KnownIds :
            FinalizeSnapshot(p, session_id, Some("a.wav"))
    \/ \E p \in Pipelines, r \in SpeechResults : FinalizeTranscribe(p, r)
    \/ \E p \in Pipelines, reply \in OllamaReplies : FinalizeFormat(p, reply)
    \/ \E p \in Pipelines, inserted \in BOOLEAN : FinalizePersist(p, inserted)
    \/ \E p \in Pipelines : FinalizeTransition(p)
    \/ \E p \in Pipelines : FinalizeEmitState(p)
    \/ \E p \in Pipelines : FinalizeEmitCompleted(p)
    \/ Poison
    \/ SignalStartPoisoned
    \/ SignalStopPoisoned
    \/ CancelSessionPoisoned
    \/ GetRecordingStatePoisoned
    \/ \E p \in Pipelines, session_id \in KnownIds :
            FinalizeSnapshotPoisoned(p, session_id, Some("a.wav"))
    \/ \E p \in Pipelines : FinalizePersistPoisoned(p)
    \/ \E p \in Pipelines : FinalizeTransitionPoisoned(p)

SpecPoisoned == Init /\ [][NextPoisoned]_vars

\* What a finalize_session call does once it has been invoked and holds its
\* snapshot: the steps the async runtime takes without the caller
FinalizeStep(p) ==
    \/ \E r \in SpeechResults : FinalizeTranscribe(p, r)
    \/ \E reply \in OllamaReplies : FinalizeFormat(p, reply)
    \/ \E inserted \in BOOLEAN : FinalizePersist(p, inserted)
    \/ FinalizeTransition(p)
    \/ FinalizeEmitState(p)
    \/ FinalizeEmitCompleted(p)

\* Two finalize_session calls for the session beside the cancel_session
\* calls of another caller
NextLive ==
    \/ CancelSession
    \/ \E p \in PipelinePair, session_id \in KnownIds :
          FinalizeSnapshot(p, session_id, Some("a.wav"))
    \/ \E p \in PipelinePair : FinalizeStep(p)

\* The runtime polls a task that can go on, and an adapter call that was
\* made returns: a call that has a step to take takes one in the end
SpecLive ==
    /\ InitPair
    /\ [][NextLive]_vars
    /\ \A p \in PipelinePair : WF_vars(FinalizeStep(p))

\* ------------------------------------------------------------------ claims

CallIndex == 1..Len(calls)

IsCall(i, op) == calls[i].op = op

Idle == RecordingStateUpdate("Idle", None)

\* C1: in every reachable state recording_state is Idle, Recording or
\* Processing, and active_session_id is present exactly when the state is
\* not Idle.
C1_StoreConsistent ==
    /\ recording_state \in RecordingState
    /\ IsSome(active_session_id) <=> recording_state /= "Idle"

\* C1 witness: start, stop, cancel, a finalize commit and a chunk have all
\* acted, and a session is active again.
C1_Witness ==
    /\ \A op \in {"signal_start", "signal_stop", "cancel_session", "finalize_session"} :
          \E i \in CallIndex : IsCall(i, op)
    /\ IsSome(chunk_ret)
    /\ recording_state = "Recording"

\* C2: of two signal_start calls that follow each other with no lifecycle
\* call between them, the first one finding the store Idle, the first
\* succeeds with a session id, the second fails with the already-active error,
\* and the store afterwards still holds the id the first one returned.
C2_StartRace ==
    \A i \in CallIndex :
        (/\ i + 1 \in CallIndex
         /\ IsCall(i, "signal_start")
         /\ IsCall(i + 1, "signal_start")
         /\ calls[i].pre.state = "Idle")
        => /\ calls[i].ret.ok
           /\ IsSome(calls[i].ret.val.session_id)
           /\ ~calls[i + 1].ret.ok
           /\ calls[i + 1].ret.val = AlreadyActive
           /\ calls[i + 1].post.session_id = calls[i].ret.val.session_id

\* C2 witness: two signal_start calls in a row, the first from Idle.
C2_Witness ==
    \E i \in CallIndex :
        /\ i + 1 \in CallIndex
        /\ IsCall(i, "signal_start")
        /\ IsCall(i + 1, "signal_start")
        /\ calls[i].pre.state = "Idle"

\* The successful signal_start calls among the first n calls
StartsBefore(n) ==
    {j \in 1..(n - 1) : IsCall(j, "signal_start") /\ calls[j].ret.ok}

\* C3: a signal_start that finds the store Idle leaves it Recording with a
\* session id that no earlier successful start was given, and returns
\* (Recording, that id).
C3_StartFresh ==
    \A i \in CallIndex :
        (IsCall(i, "signal_start") /\ calls[i].pre.state = "Idle")
        => /\ calls[i].ret.ok
           /\ calls[i].post.state = "Recording"
           /\ IsSome(calls[i].post.session_id)
           /\ calls[i].ret.val =
                  RecordingStateUpdate("Recording", calls[i].post.session_id)
           /\ \A j \in StartsBefore(i) :
                  calls[j].ret.val.session_id /= calls[i].post.session_id

\* C3 witness: a second successful start.
C3_Witness ==
    \E i \in CallIndex :
        /\ IsCall(i, "signal_start")
        /\ calls[i].ret.ok
        /\ StartsBefore(i) /= {}

\* C4: a signal_start that finds the store Recording or Processing fails with
\* the already-active error, leaves the store as it was and emits nothing.
C4_StartRejected ==
    \A i \in CallIndex :
        (IsCall(i, "signal_start") /\ calls[i].pre.state \in {"Recording", "Processing"})
        => /\ ~calls[i].ret.ok
           /\ calls[i].ret.val = AlreadyActive
           /\ calls[i].post = calls[i].pre
           /\ calls[i].emitted = <<>>

\* C4 witness: a start in Recording and a start in Processing were both made.
C4_Witness ==
    \A st \in {"Recording", "Processing"} :
        \E i \in CallIndex : IsCall(i, "signal_start") /\ calls[i].pre.state = st

\* C5: a signal_stop that finds the store Idle fails with the not-active
\* error, leaves the store Idle without a session id and emits nothing.
C5_StopWhenIdle ==
    \A i \in CallIndex :
        (IsCall(i, "signal_stop") /\ calls[i].pre.state = "Idle")
        => /\ ~calls[i].ret.ok
           /\ calls[i].ret.val = NotActive
           /\ calls[i].post = Idle
           /\ calls[i].emitted = <<>>

\* C5 witness: a stop was made in Idle, once before any session and once
\* after one.
C5_Witness ==
    /\ 1 \in CallIndex
    /\ IsCall(1, "signal_stop")
    /\ \E i \in CallIndex :
          /\ IsCall(i, "signal_stop")
          /\ calls[i].pre.state = "Idle"
          /\ StartsBefore(i) /= {}

\* C6 (the claim as stated): a signal_stop that finds the store Processing
\* fails with the not-active error and emits nothing, so a session accepts
\* one stop at most.
C6_SecondStopRejected ==
    \A i \in CallIndex :
        (IsCall(i, "signal_stop") /\ calls[i].pre.state = "Processing")
        => /\ ~calls[i].ret.ok
           /\ calls[i].ret.val = NotActive
           /\ calls[i].emitted = <<>>

\* The latest successful signal_start among the first n calls
LastStart(n) == CHOOSE j \in StartsBefore(n) : \A k \in StartsBefore(n) : k <= j

\* C7: a signal_stop that finds the store Recording leaves it Processing with
\* the session id the preceding start assigned, and returns (Processing, that
\* id).
C7_StopFromRecording ==
    \A i \in CallIndex :
        (IsCall(i, "signal_stop") /\ calls[i].pre.state = "Recording")
        => /\ calls[i].ret.ok
           /\ calls[i].post.state = "Processing"
           /\ calls[i].post.session_id = calls[i].pre.session_id
           /\ StartsBefore(i) /= {}
           /\ calls[i].post.session_id = calls[LastStart(i)].ret.val.session_id
           /\ calls[i].ret.val =
                  RecordingStateUpdate("Processing", calls[i].post.session_id)

\* C7 witness: the second session of a run was stopped while Recording.
C7_Witness ==
    \E i \in CallIndex :
        /\ IsCall(i, "signal_stop")
        /\ calls[i].pre.state = "Recording"
        /\ Cardinality(StartsBefore(i)) = 2

\* Pipeline p was called in Processing with the id of the session then active
CalledForActive(p) ==
    fin[p].at_call =
        Some(RecordingStateUpdate("Processing", Some(fin[p].session_id)))

\* No start, stop or cancel completed while pipeline p was running
Undisturbed(p) ==
    \A k \in (fin[p].calls_before + 1)..Len(calls) : IsCall(k, "finalize_session")

C9_CommitKeepsCancel ==
    \A i \in CallIndex :
        IsCall(i, "finalize_session") =>
            LET p == calls[i].ret.pipeline
            IN  (/\ CalledForActive(p)
                 /\ \E k \in (fin[p].calls_before + 1)..(i - 1) :
                        IsCall(k, "cancel_session"))
                => calls[i].post = calls[i].pre

\* The store's session id together with those of the pipelines in flight
\* (of the pipelines called for a session that was active, to leave aside
\* calls made with an id of the caller's invention)
LiveIds ==
    {Unwrap(active_session_id) : x \in {y \in {1} : IsSome(active_session_id)}}
        \cup {fin[p].session_id :
                 p \in {q \in DOMAIN fin : InFlight(q) /\ CalledForActive(q)}}

\* C10 (the claim as stated): the store's session id and the session ids of
\* the finalize pipelines in flight are one identifier at most.
C10_OneLiveId == Cardinality(LiveIds) <= 1

\* C10 (amended): the store never passes from one session id to another
\* without being emptied in between, and the id it holds is the one issued
\* last; the ids of pipelines in flight are not counted.
C10_OneSessionInStore ==
    [][/\ (IsSome(active_session_id) /\ IsSome(active_session_id'))
            => active_session_id' = active_session_id
       /\ IsSome(active_session_id') => Unwrap(active_session_id') = uuids']_vars

\* C10 witness: the store holds the id of a new session while the pipeline
\* of an earlier session is still in flight.
C10_Witness ==
    /\ IsSome(active_session_id)
    /\ \E p \in DOMAIN fin :
          /\ InFlight(p)
          /\ CalledForActive(p)
          /\ fin[p].session_id /= Unwrap(active_session_id)

\* The finalize commits of pipeline p recorded so far
CommitsOf(p) ==
    {i \in CallIndex : IsCall(i, "finalize_session") /\ calls[i].ret.pipeline = p}

\* C11 (the claim as stated): a finalize_session call made while the store
\* is Idle or Recording, or with a session id other than the active one,
\* invokes neither adapter, persists no record and does not change the store.
C11_FinalizeOnlyInProcessing ==
    \A p \in DOMAIN fin :
        (fin[p].pc /= "ready" /\ ~CalledForActive(p))
        => /\ fin[p].speech_calls = <<>>
           /\ fin[p].format_calls = <<>>
           /\ fin[p].created = <<>>
           /\ \A i \in CommitsOf(p) : calls[i].post = calls[i].pre

\* The rows of the transcriptions table
Rows == {db_rows[i] : i \in 1..Len(db_rows)}

\* The rows pipeline p inserted
CreatedRows(p) ==
    {r \in Rows : \E k \in 1..Len(fin[p].created) : r.id = fin[p].created[k]}

\* The texts of the transcription-completed events pipeline p emitted
CompletedTexts(p) ==
    {fin[p].emitted[k].payload :
        k \in {j \in 1..Len(fin[p].emitted) :
                  fin[p].emitted[j].name = "transcription-completed"}}

\* Pipeline p called format_with_ollama and got an error back
FormatFailed(p) ==
    fin[p].format_results /= <<>> /\ ~fin[p].format_results[1].ok

\* Pipeline p called format_with_ollama and got a text back
FormatSucceeded(p) ==
    fin[p].format_results /= <<>> /\ fin[p].format_results[1].ok

\* Pipeline p has returned, and not with the error of a failed insert
ReturnedPastInsert(p) ==
    fin[p].pc = "returned" /\ fin[p].created /= <<>>

\* C12: when the raw text is non-empty, formatting is enabled with a model
\* id and an endpoint, and the formatter fails, finalize_session never
\* returns the formatter's error, and (the insert succeeding, its failure
\* being the case of C21) it returns Ok with the raw text, the record it
\* inserted holds the raw text and its completion event carries the raw text.
C12_FormatFailureKeepsRaw ==
    \A p \in DOMAIN fin :
        FormatFailed(p) =>
            /\ fin[p].raw_text /= ""
            /\ fin[p].final_text = fin[p].raw_text
            /\ fin[p].pc = "returned" =>
                  /\ fin[p].ret /= Some(fin[p].format_results[1])
                  /\ fin[p].ret \in {Some(Ok(fin[p].raw_text)),
                                     Some(Err("storage failure"))}
            /\ ReturnedPastInsert(p) =>
                  /\ fin[p].ret = Some(Ok(fin[p].raw_text))
                  /\ {r.text : r \in CreatedRows(p)} = {fin[p].raw_text}
                  /\ CompletedTexts(p) = {fin[p].raw_text}

\* C12 witness: a call whose formatter failed has returned Ok.
C12_Witness ==
    \E p \in DOMAIN fin :
        /\ FormatFailed(p)
        /\ fin[p].pc = "returned"
        /\ Unwrap(fin[p].ret).ok
        /\ Unwrap(fin[p].settings_at_call) = FormattingSettings

\* Pipeline p is past its formatting step, or returned before reaching it
PastFormat(p) == fin[p].pc \notin {"ready", "transcribe", "format"}

\* The settings live at the snapshot of pipeline p enable formatting and
\* name a model and an endpoint
FormattingConfigured(p) ==
    LET s == Unwrap(fin[p].settings_at_call)
    IN  /\ IsSome(s.formatter_config)
        /\ Unwrap(s.formatter_config).enabled
        /\ IsSome(Unwrap(s.formatter_config).model_id)
        /\ IsSome(s.model_providers_config)
        /\ IsSome(Unwrap(s.model_providers_config).ollama)

\* C13: finalize_session calls the formatter (once) exactly when the raw
\* text is non-empty and the formatter config exists, is enabled, names a
\* model id and an endpoint is configured; in every other case the formatter
\* is not called and the final text is the raw text.
C13_FormatsIff ==
    \A p \in DOMAIN fin :
        PastFormat(p) =>
            /\ Len(fin[p].format_calls) <= 1
            /\ (fin[p].format_calls /= <<>>)
                  <=> (fin[p].raw_text /= "" /\ FormattingConfigured(p))
            /\ (fin[p].format_calls = <<>>) => fin[p].final_text = fin[p].raw_text

\* C13 witness: a call with non-empty raw text, formatting enabled and a model
\* id, but no endpoint, went past the formatting step without calling the
\* formatter.
C13_Witness ==
    \E p \in DOMAIN fin :
        /\ PastFormat(p)
        /\ fin[p].raw_text /= ""
        /\ IsSome(fin[p].formatter_config)
        /\ Unwrap(fin[p].formatter_config).enabled
        /\ IsSome(Unwrap(fin[p].formatter_config).model_id)
        /\ fin[p].ollama_url = None
        /\ fin[p].format_calls = <<>>

\* C14: when the formatter was called and answered with a text, that text
\* is the final text of the call: (the insert succeeding) it is the text
\* returned, the text of the record inserted and the text of the completion
\* event, whatever the raw text was.
C14_FormattedTextUsed ==
    \A p \in DOMAIN fin :
        FormatSucceeded(p) =>
            LET formatted == fin[p].format_results[1].val
            IN  /\ fin[p].final_text = formatted
                /\ fin[p].pc = "returned" =>
                      fin[p].ret \in {Some(Ok(formatted)),
                                      Some(Err("storage failure"))}
                /\ ReturnedPastInsert(p) =>
                      /\ fin[p].ret = Some(Ok(formatted))
                      /\ {r.text : r \in CreatedRows(p)} = {formatted}
                      /\ CompletedTexts(p) = {formatted}

\* C14 witness: a call returned a formatted text that differs from its raw
\* text.
C14_Witness ==
    \E p \in DOMAIN fin :
        /\ FormatSucceeded(p)
        /\ fin[p].pc = "returned"
        /\ Unwrap(fin[p].ret).ok
        /\ Unwrap(fin[p].ret).val /= fin[p].raw_text

\* The step appends a completed call of op to the log
Did(op) == Len(calls') = Len(calls) + 1 /\ calls'[Len(calls')].op = op

\* C15: of two consecutive cancel_session calls, the first made in Idle,
\* both return Ok and the store is (Idle, no id) before the first, between
\* the two and after the second; a cancel made in Idle leaves the store and
\* the transcriptions table as they were.
C15_CancelIdempotent ==
    /\ [](\A i \in CallIndex :
             (/\ i + 1 \in CallIndex
              /\ IsCall(i, "cancel_session")
              /\ IsCall(i + 1, "cancel_session")
              /\ calls[i].pre = Idle)
             => /\ calls[i].ret = Ok("()")
                /\ calls[i].post = Idle
                /\ calls[i + 1].pre = Idle
                /\ calls[i + 1].ret = Ok("()")
                /\ calls[i + 1].post = Idle)
    /\ [][(Did("cancel_session") /\ Store = Idle)
             => /\ Store' = Idle
                /\ db_rows' = db_rows
                /\ db_seq' = db_seq]_vars

\* C15 witness: two consecutive cancels, the first made in Idle, with a
\* record in the table.
C15_Witness ==
    /\ db_rows /= <<>>
    /\ \E i \in CallIndex :
          /\ i + 1 \in CallIndex
          /\ IsCall(i, "cancel_session")
          /\ IsCall(i + 1, "cancel_session")
          /\ calls[i].pre = Idle

\* C16: every cancel_session call, whatever the state it is made in,
\* returns Ok, leaves the store (Idle, no id) and emits one
\* recording-state-changed event carrying (Idle, null) and nothing else; its
\* step calls no adapter and changes neither a finalize call's progress nor
\* the transcriptions table.
C16_CancelAlwaysIdle ==
    /\ [](\A i \in CallIndex :
             IsCall(i, "cancel_session")
             => /\ calls[i].ret = Ok("()")
                /\ calls[i].post = Idle
                /\ calls[i].emitted = <<StateChanged(Idle)>>)
    /\ [][Did("cancel_session")
             => /\ fin' = fin
                /\ db_rows' = db_rows
                /\ db_seq' = db_seq]_vars

\* C16 witness: a session in Processing was cancelled while its finalize
\* call was in flight.
C16_Witness ==
    \E i \in CallIndex, p \in DOMAIN fin :
        /\ IsCall(i, "cancel_session")
        /\ calls[i].pre.state = "Processing"
        /\ CalledForActive(p)
        /\ InFlight(p)
        /\ i > fin[p].calls_before

\* Pipeline p has called transcribe_audio_file or format_with_ollama and the
\* call has not returned
AdapterCallPending(p) ==
    \/ fin[p].pc = "transcribe" /\ IsSome(fin[p].audio_file_path)
    \/ /\ fin[p].pc = "format"
       /\ WantsFormatting(fin[p].raw_text, fin[p].formatter_config, fin[p].ollama_url)

\* C17: while a speech-engine or formatter call of finalize_session is
\* pending, no caller holds the store's lock, so get_recording_state and
\* (within the calls of a run) signal_start, signal_stop and cancel_session
\* can take it and complete.
C17_NoLockAcrossAdapters ==
    \A p \in DOMAIN fin :
        AdapterCallPending(p) =>
            /\ lock = None
            /\ ENABLED GetRecordingState
            /\ CanCall => /\ ENABLED SignalStart
                          /\ ENABLED SignalStop
                          /\ ENABLED CancelSession

\* C17 witness: the formatter call of a finalize_session call is pending,
\* its speech-engine call has returned, and since the snapshot another
\* caller's command has completed and a state query has been answered with
\* the store that command left.
C17_Witness ==
    \E p \in DOMAIN fin :
        /\ AdapterCallPending(p)
        /\ fin[p].pc = "format"
        /\ fin[p].speech_calls /= <<>>
        /\ Len(calls) > fin[p].calls_before
        /\ state_ret = Some(Ok(Store))
        /\ Some(Store) /= fin[p].at_call

\* The language the settings live at the snapshot of pipeline p select:
\* none without dictation settings or with auto-detect enabled
LanguageAtCall(p) ==
    LET s == Unwrap(fin[p].settings_at_call)
    IN  IF IsSome(s.dictation) /\ ~Unwrap(s.dictation).auto_detect_enabled
        THEN Some(Unwrap(s.dictation).selected_language)
        ELSE None

\* C18: what a finalize_session call does with language, formatter config
\* and endpoint is decided by the settings live at its snapshot, whatever
\* update_settings stores afterwards: whether the formatter is called, the
\* arguments of the speech-engine call and of the formatter call, and the
\* language of the record inserted.
C18_SnapshotReadOnce ==
    \A p \in DOMAIN fin :
        fin[p].pc /= "ready" =>
            LET s == Unwrap(fin[p].settings_at_call)
            IN  /\ PastFormat(p) =>
                      ((fin[p].format_calls /= <<>>)
                          <=> (fin[p].raw_text /= "" /\ FormattingConfigured(p)))
                /\ \A k \in 1..Len(fin[p].format_calls) :
                      fin[p].format_calls[k] =
                          <<Unwrap(Unwrap(s.model_providers_config).ollama).url,
                            Unwrap(Unwrap(s.formatter_config).model_id),
                            fin[p].raw_text>>
                /\ \A k \in 1..Len(fin[p].speech_calls) :
                      fin[p].speech_calls[k] =
                          <<fin[p].audio_file_path, LanguageAtCall(p)>>
                /\ \A r \in CreatedRows(p) :
                      r.language = IF IsSome(LanguageAtCall(p))
                                   THEN LanguageAtCall(p)
                                   ELSE Some("ja")

\* C18 witness: a call that took its snapshot under settings enabling
\* formatting has called the formatter and is about to insert its record
\* while the live settings have been replaced by the defaults.
C18_Witness ==
    \E p \in DOMAIN fin :
        /\ fin[p].pc = "persist"
        /\ fin[p].settings_at_call = Some(FormattingSettings)
        /\ settings = DefaultSettings
        /\ fin[p].speech_calls /= <<>>
        /\ fin[p].format_calls /= <<>>

\* The finalize_session calls that have returned Ok
Succeeded == {p \in DOMAIN fin : fin[p].pc = "returned" /\ Unwrap(fin[p].ret).ok}

SpeechFailed(p) ==
    fin[p].speech_results /= <<>> /\ ~fin[p].speech_results[1].ok

\* C20: when the speech engine fails, finalize_session returns the engine's
\* error, the formatter is not called, no record is inserted and no
\* transcription-completed event (nor any other event) is emitted by the
\* call.
C20_SpeechFailureReturnsError ==
    \A p \in DOMAIN fin :
        SpeechFailed(p) =>
            /\ fin[p].pc = "returned"
            /\ fin[p].ret = Some(Err(fin[p].speech_results[1].val))
            /\ fin[p].format_calls = <<>>
            /\ fin[p].created = <<>>
            /\ CompletedTexts(p) = {}
            /\ fin[p].emitted = <<>>

\* C20 witness: a call made for the active session under settings that
\* enable formatting returned the speech engine's error.
C20_Witness ==
    \E p \in DOMAIN fin :
        /\ SpeechFailed(p)
        /\ CalledForActive(p)
        /\ fin[p].settings_at_call = Some(FormattingSettings)
        /\ fin[p].ret = Some(Err("inference failed"))

\* C21 (the claim as stated): a finalize_session call made for the active
\* session and left alone by the other commands, whose insert fails,
\* returns the error, emits no completion event and has put the store back
\* to Idle without a session id when it returns.
C21_PersistFailureResets ==
    \A p \in DOMAIN fin :
        (/\ fin[p].pc = "returned"
         /\ fin[p].ret = Some(Err("storage failure"))
         /\ CalledForActive(p)
         /\ Undisturbed(p))
        => /\ CompletedTexts(p) = {}
           /\ Unwrap(fin[p].at_return) = Idle

\* The run so far is start, stop, and the finalize_session call p made for
\* the session with an audio path, the speech engine answering a non-empty
\* text, formatting absent or disabled at the snapshot, and the insert done:
\* nothing else was called
StartStopFinalize(p) ==
    /\ fin[p].pc = "returned"
    /\ fin[p].created /= <<>>
    /\ Len(calls) = 3
    /\ IsCall(1, "signal_start")
    /\ IsCall(2, "signal_stop")
    /\ IsCall(3, "finalize_session")
    /\ calls[3].ret.pipeline = p
    /\ fin[p].calls_before = 2
    /\ fin[p].session_id = NewV4(0)
    /\ IsSome(fin[p].audio_file_path)
    /\ fin[p].speech_results /= <<>>
    /\ fin[p].speech_results[1].ok
    /\ fin[p].speech_results[1].val /= ""
    /\ LET fc == Unwrap(fin[p].settings_at_call).formatter_config
       IN  IsSome(fc) => ~Unwrap(fc).enabled

\* C22: in the run start, stop, finalize (audio path given, speech engine
\* answering the non-empty text T, formatting disabled, nothing concurrent)
\* start returned (Recording, s1), stop returned (Processing, s1), the table
\* holds exactly one record, with text T and the session id given to
\* finalize in its metadata, the events emitted are, in order,
\* (Recording, s1), (Processing, s1), (Idle, null) and completion(T), and
\* finalize returned T.
C22_StartStopFinalize ==
    \A p \in DOMAIN fin :
        StartStopFinalize(p) =>
            LET T == fin[p].speech_results[1].val
                s1 == NewV4(0)
                recording == RecordingStateUpdate("Recording", Some(s1))
                processing == RecordingStateUpdate("Processing", Some(s1))
            IN  /\ calls[1].ret = Ok(recording)
                /\ calls[2].ret = Ok(processing)
                /\ Len(db_rows) = 1
                /\ db_rows[1].text = T
                /\ db_rows[1].meta = Some([sessionId |-> fin[p].session_id,
                                           source |-> "microphone"])
                /\ events = <<StateChanged(recording), StateChanged(processing),
                              StateChanged(Idle), Completed(T)>>
                /\ fin[p].ret = Some(Ok(T))
                /\ Store = Idle

\* C22 witness: the run start, stop, finalize has completed with formatting
\* configured but disabled.
C22_Witness ==
    \E p \in DOMAIN fin :
        /\ StartStopFinalize(p)
        /\ IsSome(fin[p].formatter_config)
        /\ IsSome(Unwrap(fin[p].formatter_config).model_id)
        /\ IsSome(fin[p].ollama_url)

\* C23: a finalize_session call without an audio path calls neither the
\* speech engine nor the formatter, whatever the settings; it never returns
\* an adapter's error, and (the insert succeeding) it inserts exactly one
\* record, with the empty text and no audio file, emits the completion
\* event with the empty text and returns Ok with the empty string.
C23_NoAudioEmptyRecord ==
    \A p \in DOMAIN fin :
        (fin[p].pc /= "ready" /\ fin[p].audio_file_path = None) =>
            /\ fin[p].speech_calls = <<>>
            /\ fin[p].format_calls = <<>>
            /\ fin[p].raw_text = ""
            /\ \A r \in CreatedRows(p) : r.text = "" /\ r.audio_file = None
            /\ fin[p].pc = "returned" =>
                  fin[p].ret \in {Some(Ok("")), Some(Err("storage failure"))}
            /\ ReturnedPastInsert(p) =>
                  /\ fin[p].ret = Some(Ok(""))
                  /\ Cardinality(CreatedRows(p)) = 1
                  /\ CompletedTexts(p) = {""}

\* C23 witness: a call without an audio path has returned Ok under settings
\* that enable formatting with a model id and an endpoint.
C23_Witness ==
    \E p \in DOMAIN fin :
        /\ fin[p].audio_file_path = None
        /\ fin[p].pc = "returned"
        /\ fin[p].ret = Some(Ok(""))
        /\ FormattingConfigured(p)
        /\ Cardinality(CreatedRows(p)) = 1

\* C24: process_audio_chunk returns Ok with the empty string in every state
\* and for every session id, and its step leaves recording_state,
\* active_session_id, settings and the transcriptions table as they were
\* and emits nothing.
C24_ChunkIsNoOp ==
    /\ [](chunk_ret \in {None, Some(Ok(""))})
    /\ [][((\E session_id \in KnownIds : ProcessAudioChunk(session_id))
              \/ chunk_ret' /= chunk_ret)
             => /\ chunk_ret' = Some(Ok(""))
                /\ UNCHANGED <<recording_state, active_session_id, settings,
                               db_rows, db_seq, events, fin, calls>>]_vars

\* C24 witness: a chunk was acknowledged while a session was in Processing
\* with its finalize call in flight.
C24_Witness ==
    /\ chunk_ret = Some(Ok(""))
    /\ recording_state = "Processing"
    /\ \E p \in DOMAIN fin : InFlight(p) /\ fin[p].speech_calls /= <<>>

\* The recording-state-changed events pipeline p emitted, in order
StateEvents(p) ==
    SelectSeq(fin[p].emitted, LAMBDA e : e.name = "recording-state-changed")

\* C25: a start, stop or cancel that returned Ok emitted exactly one
\* recording-state-changed event, carrying the store as the call left it:
\* (Recording, new id) for start, (Processing, the id already stored) for
\* stop, (Idle, null) for cancel; one that returned Err emitted nothing and
\* left the store alone.  A finalize_session call that returned Ok emitted
\* exactly one such event, carrying (Idle, null), the store its transition
\* wrote; one that returned Err emitted none.
C25_OneEventPerTransition ==
    /\ \A i \in CallIndex :
          ~IsCall(i, "finalize_session") =>
              IF calls[i].ret.ok
              THEN /\ calls[i].emitted = <<StateChanged(calls[i].post)>>
                   /\ IsCall(i, "signal_start") =>
                         /\ calls[i].post.state = "Recording"
                         /\ IsSome(calls[i].post.session_id)
                   /\ IsCall(i, "signal_stop") =>
                         /\ calls[i].post.state = "Processing"
                         /\ IsSome(calls[i].post.session_id)
                         /\ calls[i].post.session_id = calls[i].pre.session_id
                   /\ IsCall(i, "cancel_session") => calls[i].post = Idle
              ELSE /\ calls[i].emitted = <<>>
                   /\ calls[i].post = calls[i].pre
    /\ \A i \in CallIndex :
          IsCall(i, "finalize_session") =>
              /\ calls[i].post = Idle
              /\ calls[i].emitted = <<>>
    /\ \A p \in DOMAIN fin :
          fin[p].pc = "returned" =>
              IF Unwrap(fin[p].ret).ok
              THEN /\ StateEvents(p) = <<StateChanged(Idle)>>
                   /\ Cardinality(CommitsOf(p)) = 1
              ELSE /\ fin[p].emitted = <<>>
                   /\ CommitsOf(p) = {}

\* C25 witness: a run in which a call was rejected, a session was started
\* and stopped, and the finalize_session call made for it returned Ok.
C25_Witness ==
    /\ \E i \in CallIndex : ~IsCall(i, "finalize_session") /\ ~calls[i].ret.ok
    /\ \E i \in CallIndex : IsCall(i, "signal_stop") /\ calls[i].ret.ok
    /\ \E p \in DOMAIN fin :
          /\ fin[p].pc = "returned"
          /\ Unwrap(fin[p].ret).ok
          /\ CalledForActive(p)

\* C26: the steps of one finalize_session call come in the order speech
\* engine, formatter, insert, transition, state-change event, completion
\* event: the formatter is called only after the speech engine answered,
\* the insert comes after the formatting step, the transition after the
\* insert, the state-change event after the transition, and when the call
\* has emitted a completion event with text T it has already inserted a
\* record with text T and emitted its (Idle, null) event, and it returns T.
C26_PipelineOrder ==
    \A p \in DOMAIN fin :
        /\ fin[p].format_calls /= <<>> =>
              /\ fin[p].speech_results /= <<>>
              /\ fin[p].speech_results[1] = Ok(fin[p].raw_text)
        /\ fin[p].created /= <<>> => PastFormat(p)
        /\ CommitsOf(p) /= {} => fin[p].created /= <<>>
        /\ fin[p].emitted /= <<>> =>
              /\ CommitsOf(p) /= {}
              /\ fin[p].emitted[1] = StateChanged(Idle)
        /\ CompletedTexts(p) /= {} =>
              LET T == fin[p].final_text
              IN  /\ fin[p].emitted = <<StateChanged(Idle), Completed(T)>>
                  /\ {r.text : r \in CreatedRows(p)} = {T}
                  /\ fin[p].pc = "returned"
                  /\ fin[p].ret = Some(Ok(T))

\* C26 witness: a call made for the active session has emitted its
\* completion event with a formatted text.
C26_Witness ==
    \E p \in DOMAIN fin :
        /\ CalledForActive(p)
        /\ CompletedTexts(p) = {"Hello, world."}
        /\ fin[p].raw_text = "hello world"

\* The recording-state-changed events emitted so far, in order
StateChanges == SelectSeq(events, LAMBDA e : e.name = "recording-state-changed")

\* C27 (the claim as stated): whenever no finalize_session call is in
\* flight (the other commands being single steps), every finalize call so
\* far having been made in Processing for the active session, the latest
\* recording-state-changed event carries the store's current state and
\* session id.
C27_LastEventIsStore ==
    (/\ \A p \in DOMAIN fin : ~InFlight(p)
     /\ \A p \in DOMAIN fin : fin[p].pc /= "ready" => CalledForActive(p)
     /\ StateChanges /= <<>>)
    => StateChanges[Len(StateChanges)].payload = Store

\* cancel_session completed for the session of pipeline p after the call's
\* snapshot, and the call has not yet made its insert
CancelledBeforePersist(p) ==
    /\ CalledForActive(p)
    /\ fin[p].pc \in {"transcribe", "format", "persist"}
    /\ \E k \in (fin[p].calls_before + 1)..Len(calls) :
          /\ IsCall(k, "cancel_session")
          /\ calls[k].pre.session_id = Some(fin[p].session_id)

\* C28 (the claim as stated): once cancel_session has completed for the
\* session of a finalize_session call that has not reached its insert, no
\* step of that call inserts a record.
C28_CancelStopsPipeline ==
    [][\A p \in DOMAIN fin :
          CancelledBeforePersist(p) => fin'[p].created = fin[p].created]_vars

\* C29 (the claim as stated): of two finalize_session calls carrying the
\* same session id, the first made in Processing for the active session,
\* at most one inserts a record.
C29_OneRecordPerSession ==
    \A p, q \in DOMAIN fin :
        (/\ p /= q
         /\ CalledForActive(p)
         /\ fin[q].pc /= "ready"
         /\ fin[q].session_id = fin[p].session_id)
        => (fin[p].created = <<>> \/ fin[q].created = <<>>)

\* C30: with auto-detect enabled, or without dictation settings, at the
\* snapshot, the language given to the speech engine is unset and the
\* record inserted carries "ja"; otherwise both are the selected language.
C30_LanguageHint ==
    \A p \in DOMAIN fin :
        fin[p].pc /= "ready" =>
            LET d == Unwrap(fin[p].settings_at_call).dictation
                unset == d = None \/ Unwrap(d).auto_detect_enabled
                hint == IF unset THEN None ELSE Some(Unwrap(d).selected_language)
                stored == IF unset THEN Some("ja") ELSE hint
            IN  /\ fin[p].language = hint
                /\ \A k \in 1..Len(fin[p].speech_calls) :
                      fin[p].speech_calls[k][2] = hint
                /\ \A r \in CreatedRows(p) : r.language = stored

\* C30 witness: under dictation settings with auto-detect enabled the
\* speech engine was called without a language and the record carries "ja",
\* the selected language being another.
C30_Witness ==
    \E p \in DOMAIN fin :
        LET d == Unwrap(fin[p].settings_at_call).dictation
        IN  /\ fin[p].pc = "returned"
            /\ IsSome(d)
            /\ Unwrap(d).auto_detect_enabled
            /\ Unwrap(d).selected_language /= "ja"
            /\ fin[p].speech_calls /= <<>>
            /\ fin[p].speech_calls[1][2] = None
            /\ \E r \in CreatedRows(p) : r.language = Some("ja")

\* C31: one finalize_session call asks the speech engine at most once, the
\* formatter at most once and the database for an insert at most once, each
\* call having one answer, whether Ok or Err; a step of signal_start,
\* signal_stop or cancel_session asks none of them.
C31_NoRetries ==
    /\ [](\A p \in DOMAIN fin :
             /\ Len(fin[p].speech_calls) <= 1
             /\ Len(fin[p].speech_results) = Len(fin[p].speech_calls)
             /\ Len(fin[p].format_calls) <= 1
             /\ Len(fin[p].format_results) = Len(fin[p].format_calls)
             /\ Len(fin[p].create_results) <= 1
             /\ Len(fin[p].created) <= Len(fin[p].create_results))
    /\ [][(Did("signal_start") \/ Did("signal_stop") \/ Did("cancel_session"))
             => /\ fin' = fin
                /\ db_rows' = db_rows
                /\ db_seq' = db_seq]_vars

\* C31 witness: a call has returned after its formatter call and its insert
\* both failed, each made once, the speech engine having been asked once.
C31_Witness ==
    \E p \in DOMAIN fin :
        /\ fin[p].pc = "returned"
        /\ Len(fin[p].speech_calls) = 1
        /\ FormatFailed(p)
        /\ Len(fin[p].format_calls) = 1
        /\ fin[p].create_results = <<Err("storage failure")>>

\* The ids of the rows of the transcriptions table
RowIdsOf(rows) == {rows[i].id : i \in 1..Len(rows)}

\* The step is the insert of a finalize_session call
PersistStep ==
    \E p \in DOMAIN fin :
        /\ fin[p].pc = "persist"
        /\ Len(fin'[p].create_results) = Len(fin[p].create_results) + 1

\* The step is a save_transcription call that returned the new id
SaveStep ==
    /\ fin' = fin
    /\ calls' = calls
    /\ IsSome(records_ret')
    /\ Unwrap(records_ret').op = "save_transcription"
    /\ Unwrap(records_ret').ret.ok
    /\ Unwrap(records_ret').ret.val = db_seq + 1

\* The step is a delete_transcription or delete_all_transcriptions call
\* that returned Ok
DeleteStep ==
    /\ fin' = fin
    /\ calls' = calls
    /\ IsSome(records_ret')
    /\ Unwrap(records_ret').op \in {"delete_transcription", "delete_all_transcriptions"}
    /\ Unwrap(records_ret').ret.ok

\* C32: the transcriptions table changes only by a finalize_session insert
\* or a save_transcription appending one record under a fresh id, and by a
\* delete_transcription or delete_all_transcriptions removing records;
\* signal_start, signal_stop, cancel_session, process_audio_chunk,
\* get_recording_state and update_settings leave it as it was, and a record
\* that stays in the table keeps every field.
C32_RecordsFrame ==
    [][/\ db_rows' /= db_rows =>
            \/ /\ PersistStep \/ SaveStep
               /\ \E row \in Rows' :
                    /\ db_rows' = Append(db_rows, row)
                    /\ row.id = db_seq + 1
                    /\ row.id \notin RowIdsOf(db_rows)
               /\ db_seq' = db_seq + 1
            \/ /\ DeleteStep
               /\ Rows' \subseteq Rows
               /\ Len(db_rows') < Len(db_rows)
               /\ db_seq' = db_seq
       /\ \A r \in Rows' : r.id \in RowIdsOf(db_rows) => r \in Rows
       /\ \A r \in Rows' : r.id <= db_seq'
       /\ (\/ Did("signal_start") \/ Did("signal_stop") \/ Did("cancel_session")
           \/ chunk_ret' /= chunk_ret
           \/ state_ret' /= state_ret
           \/ settings' /= settings) => db_rows' = db_rows /\ db_seq' = db_seq
      ]_vars

\* A saved record was deleted, the finalize_session call then inserted its
\* own under the next id, and every other command has run meanwhile
C32_Witness ==
    /\ db_seq = 2
    /\ Len(db_rows) = 1
    /\ db_rows[1].id = 2
    /\ \E p \in DOMAIN fin : fin[p].pc = "returned" /\ fin[p].created = <<2>>
    /\ IsSome(records_ret)
    /\ Unwrap(records_ret).op = "delete_all_transcriptions"
    /\ Unwrap(records_ret).ret.ok
    /\ \E k \in 1..Len(calls) : calls[k].op = "cancel_session"
    /\ settings = FormattingSettings
    /\ chunk_ret /= None
    /\ state_ret /= None

\* The result is the error of a failed lock()
IsPoisonError(ret) == ~ret.ok /\ ret.val = PoisonedLock

\* The positions of finalize_session at which it calls lock()
LockingPositions == {"ready", "persist", "transition"}

\* C33: on a poisoned mutex signal_start, signal_stop, cancel_session,
\* get_recording_state and finalize_session return the lock's error at the
\* acquisition that fails: the step changes neither recording_state nor
\* active_session_id, emits nothing and inserts nothing, and the call that
\* returned does nothing afterwards.  Only a finalize_session call that was
\* past its last acquisition when the mutex was poisoned still emits.
C33_PoisonedLockReturns ==
    [][lock = Poisoned =>
        /\ lock' = Poisoned
        /\ UNCHANGED <<recording_state, active_session_id, db_rows, db_seq>>
        /\ \A op \in {"signal_start", "signal_stop", "cancel_session"} :
              Did(op) =>
                 /\ IsPoisonError(calls'[Len(calls')].ret)
                 /\ calls'[Len(calls')].emitted = <<>>
                 /\ calls'[Len(calls')].pre = calls'[Len(calls')].post
                 /\ events' = events
                 /\ fin' = fin
        /\ IsSome(state_ret') =>
              \/ IsPoisonError(Unwrap(state_ret'))
              \/ /\ IsSome(state_ret)
                 /\ Unwrap(state_ret).ok
                 /\ Unwrap(state_ret').val = Unwrap(state_ret).val
        /\ \A p \in DOMAIN fin :
              /\ fin[p].pc \in LockingPositions /\ fin'[p].pc /= fin[p].pc =>
                    /\ fin'[p].pc = "returned"
                    /\ IsPoisonError(Unwrap(fin'[p].ret))
                    /\ fin'[p].emitted = fin[p].emitted
                    /\ fin'[p].created = fin[p].created
                    /\ fin'[p].create_results = fin[p].create_results
                    /\ events' = events
                    /\ calls' = calls
              /\ fin[p].pc = "returned" => fin'[p] = fin[p]
        /\ events' /= events =>
              \E p \in DOMAIN fin : fin[p].pc \in {"emit_state", "emit_completed"}
      ]_vars

\* The mutex was poisoned between the insert and the transition of a
\* finalize_session call: the call returned the lock's error with its record
\* in the table and the session still in Processing, and signal_start,
\* cancel_session and get_recording_state have failed since
C33_Witness ==
    /\ lock = Poisoned
    /\ recording_state = "Processing"
    /\ \E p \in DOMAIN fin :
          /\ fin[p].pc = "returned"
          /\ IsPoisonError(Unwrap(fin[p].ret))
          /\ Len(fin[p].created) = 1
          /\ fin[p].emitted = <<>>
    /\ \A op \in {"signal_start", "cancel_session"} :
          \E k \in 1..Len(calls) : calls[k].op = op /\ IsPoisonError(calls[k].ret)
    /\ IsSome(state_ret)
    /\ IsPoisonError(Unwrap(state_ret))

\* C34: no caller waits for another: between steps the guard is free, a
\* finalize_session call that has not returned has a step it can take, and
\* signal_start, signal_stop and cancel_session can run to their return
\* whatever the finalize_session calls are doing; where the runtime is fair
\* and the adapters answer, every finalize_session call that was invoked
\* returns.
C34_EveryCallReturns ==
    /\ [](lock = None)
    /\ [](\A p \in DOMAIN fin : InFlight(p) => ENABLED FinalizeStep(p))
    /\ [](CanCall => ENABLED SignalStart /\ ENABLED SignalStop /\ ENABLED CancelSession)
    /\ \A p \in PipelinePair : InFlight(p) ~> fin[p].pc = "returned"

\* Both finalize_session calls have returned, one of them with an error of
\* the speech engine, after they ran side by side with a cancel_session
C34_Witness ==
    /\ \A p \in DOMAIN fin : fin[p].pc = "returned"
    /\ \E p \in DOMAIN fin : IsSome(fin[p].ret) /\ ~Unwrap(fin[p].ret).ok
    /\ \E p \in DOMAIN fin : IsSome(fin[p].ret) /\ Unwrap(fin[p].ret).ok
    /\ \E k \in 1..Len(calls) :
          /\ calls[k].op = "cancel_session"
          /\ \E p \in DOMAIN fin : fin[p].calls_before < k
    /\ lock = None

====
